---------------------------- MODULE Spec2Model ----------------------------
(***************************************************************************)
(* A model of agc.py (OTU clustering): read_fasta, dereplication, the      *)
(* k-mer index, chunking, the chimera test, chimera_removal and            *)
(* abundance_greedy_clustering.                                            *)
(*                                                                         *)
(* Strings are tuples of one-character strings.  A Python list is a tuple, *)
(* an insertion-ordered dict with string keys whose order matters          *)
(* (dict_amplicon) is a tuple of <<key, value>> pairs, and kmer_dict, whose *)
(* order is never read, is a function from k-mers to tuples of ids.        *)
(* Python indices are 0-based, TLA+ indices 1-based.                       *)
(***************************************************************************)
EXTENDS Integers, Sequences, FiniteSets, TLC

VARIABLES
    filin,              \* the lines of the amplicon file
    minseqlen, mincount, chunk_size, kmer_size,     \* the arguments
    pc,                 \* where the pipeline stands
    err,                \* the exception that ended the run, or "none"
    pos,                \* read_fasta: lines consumed so far
    seq,                \* read_fasta: the record being accumulated
    stream,             \* every sequence read_fasta has yielded, in order
    dict_amplicon,      \* dereplication_fulllength: the counts
    items,              \* dereplication_fulllength: sorted(dict_amplicon.items())
    idx,                \* dereplication_fulllength: items consumed so far
    derep_out,          \* every amplicon dereplication_fulllength has yielded
    amplicon,           \* the amplicon in flight between two generators
    list_non_chimere,   \* chimera_removal: the reference pool
    kmer_dict,          \* chimera_removal: the k-mer index
    id_ref,             \* chimera_removal: the next reference id
    mates,              \* chimera_removal: the candidate lists of the last step
    is_chim,            \* chimera_removal: the verdict of the last step
    emitted,            \* every amplicon chimera_removal has yielded
    greedy_cluster,     \* abundance_greedy_clustering: the clusters
    identities,         \* abundance_greedy_clustering: identities of the last scan
    call                \* the last direct call of a function and what it returned

vars == <<filin, minseqlen, mincount, chunk_size, kmer_size, pc, err, pos, seq,
          stream, dict_amplicon, items, idx, derep_out, amplicon,
          list_non_chimere, kmer_dict, id_ref, mates, is_chim, emitted,
          greedy_cluster, identities, call>>

---------------------------------------------------------------------------
(* Bounds of the model and constants of the program.                       *)

MaxRecords == 4         \* records in the amplicon file
MaxSeqLen == 14         \* length of a sequence handed to get_chunks directly
MaxChunkSize == 3       \* chunk size handed to get_chunks directly
MaxRefs == 9            \* insertions into a k-mer index built directly
MaxRows == 3            \* rows of a matrix handed to detect_chimera directly

MinChunks == 4          \* get_chunks: len(list_sub_seq) >= 4
TopN == 8               \* search_mates: most_common(8)
StdevThreshold == 5     \* detect_chimera: > 5
IdentityThreshold == 97 \* abundance_greedy_clustering: > 97

---------------------------------------------------------------------------
(* Helpers for Python's built-ins.                                         *)

Rep(c, n) == [i \in 1..n |-> c]

Min(S) == CHOOSE x \in S : \A y \in S : x <= y

RECURSIVE SumSeq(_)
SumSeq(s) == IF s = <<>> THEN 0 ELSE Head(s) + SumSeq(Tail(s))

RECURSIVE Concat(_)
Concat(ss) == IF ss = <<>> THEN <<>> ELSE Head(ss) \o Concat(Tail(ss))

Whitespace == {" ", "\n", "\t", "\r"}

\* str.strip(): leading and trailing whitespace removed.
RECURSIVE strip(_)
strip(line) ==
    IF line = <<>> THEN <<>>
    ELSE IF Head(line) \in Whitespace THEN strip(Tail(line))
    ELSE IF line[Len(line)] \in Whitespace
         THEN strip(SubSeq(line, 1, Len(line) - 1))
    ELSE line

\* line.startswith(">")
startswith_gt(line) == Len(line) >= 1 /\ line[1] = ">"

\* The index of the first item of `its` whose value is the largest.
FirstMax(its) ==
    Min({i \in 1..Len(its) : \A j \in 1..Len(its) : its[j][2] <= its[i][2]})

\* A faulty variant of the sort, an ascending sort reversed: items of equal count
\* come out last-seen first.
LastMax(its) ==
    CHOOSE i \in 1..Len(its) :
        /\ \A j \in 1..Len(its) : its[j][2] <= its[i][2]
        /\ \A j \in (i + 1)..Len(its) : its[j][2] < its[i][2]

RECURSIVE sorted_ascending_reversed(_)
sorted_ascending_reversed(its) ==
    IF its = <<>> THEN <<>>
    ELSE LET m == LastMax(its)
         IN <<its[m]>> \o sorted_ascending_reversed(
                SubSeq(its, 1, m - 1) \o SubSeq(its, m + 1, Len(its)))

\* sorted(items, key=lambda x: x[1], reverse=True): Python's sort is stable,
\* and reverse=True keeps the original order of items with equal keys.
RECURSIVE sorted_by_count_desc(_)
sorted_by_count_desc(its) ==
    IF its = <<>> THEN <<>>
    ELSE LET m == FirstMax(its)
         IN <<its[m]>> \o sorted_by_count_desc(
                SubSeq(its, 1, m - 1) \o SubSeq(its, m + 1, Len(its)))

\* dict_amplicon[amplicon] = 1, or += 1 when the key is there already.
count_amplicon(d, key) ==
    IF \E i \in 1..Len(d) : d[i][1] = key
    THEN [i \in 1..Len(d) |-> IF d[i][1] = key THEN <<key, d[i][2] + 1>> ELSE d[i]]
    ELSE Append(d, <<key, 1>>)

---------------------------------------------------------------------------
(* get_chunks                                                              *)

\* for i in range(0, len(sequence), chunk_size):
\*     if i+chunk_size < len(sequence): list_sub_seq.append(sequence[i:i+chunk_size])
RECURSIVE chunk_loop(_, _, _, _)
chunk_loop(sequence, size, i, list_sub_seq) ==
    IF i >= Len(sequence) THEN list_sub_seq
    ELSE chunk_loop(sequence, size, i + size,
            IF i + size < Len(sequence)
            THEN Append(list_sub_seq, SubSeq(sequence, i + 1, i + size))
            ELSE list_sub_seq)

\* A faulty variant of get_chunks: it keeps the chunk ending at the last index.
RECURSIVE chunk_loop_inclusive(_, _, _, _)
chunk_loop_inclusive(sequence, size, i, list_sub_seq) ==
    IF i >= Len(sequence) THEN list_sub_seq
    ELSE chunk_loop_inclusive(sequence, size, i + size,
            IF i + size <= Len(sequence)
            THEN Append(list_sub_seq, SubSeq(sequence, i + 1, i + size))
            ELSE list_sub_seq)

get_chunks_inclusive(sequence, size) ==
    LET l == chunk_loop_inclusive(sequence, size, 0, <<>>)
    IN IF Len(l) >= MinChunks THEN [raised |-> FALSE, value |-> l]
       ELSE [raised |-> TRUE, value |-> <<>>]

\* The list of chunks, or `raised` for ValueError.
get_chunks(sequence, size) ==
    LET l == chunk_loop(sequence, size, 0, <<>>)
    IN IF Len(l) >= MinChunks THEN [raised |-> FALSE, value |-> l]
       ELSE [raised |-> TRUE, value |-> <<>>]

---------------------------------------------------------------------------
(* The k-mer index: cut_kmer, get_unique_kmer, search_mates, common        *)

\* for i in range(0, len(sequence)-kmer_size+1): yield sequence[i:i+kmer_size]
cut_kmer(sequence, k) ==
    [i \in 1..(IF Len(sequence) - k + 1 > 0 THEN Len(sequence) - k + 1 ELSE 0)
        |-> SubSeq(sequence, i, i + k - 1)]

EmptyDict == [kmer \in {} |-> <<>>]

RECURSIVE insert_kmers(_, _, _)
insert_kmers(d, kmers, id_seq) ==
    IF kmers = <<>> THEN d
    ELSE LET kmer == Head(kmers)
             d2 == IF kmer \in DOMAIN d
                   THEN [d EXCEPT ![kmer] = Append(@, id_seq)]
                   ELSE [x \in DOMAIN d \cup {kmer} |->
                            IF x = kmer THEN <<id_seq>> ELSE d[x]]
         IN insert_kmers(d2, Tail(kmers), id_seq)

\* A faulty variant of get_unique_kmer: it files the sequence under the id after its own.
get_unique_kmer_next_id(d, sequence, id_seq, k) ==
    insert_kmers(d, cut_kmer(sequence, k), id_seq + 1)

get_unique_kmer(d, sequence, id_seq, k) ==
    insert_kmers(d, cut_kmer(sequence, k), id_seq)

\* [ids for kmer in cut_kmer(sequence, k) if kmer in kmer_dict for ids in kmer_dict[kmer]]
RECURSIVE collect_ids(_, _)
collect_ids(d, kmers) ==
    IF kmers = <<>> THEN <<>>
    ELSE (IF Head(kmers) \in DOMAIN d THEN d[Head(kmers)] ELSE <<>>)
         \o collect_ids(d, Tail(kmers))

\* Counter(ids).items(): each id with its count, in first-encountered order.
RECURSIVE counter_items(_, _)
counter_items(ids, acc) ==
    IF ids = <<>> THEN acc
    ELSE counter_items(Tail(ids), count_amplicon(acc, Head(ids)))

\* A faulty variant of most_common: it keeps the first n ids encountered, unranked.
most_common_unranked(ids, n) ==
    LET c == counter_items(ids, <<>>)
    IN SubSeq(c, 1, IF Len(c) < n THEN Len(c) ELSE n)

\* Counter(ids).most_common(n): sorted by count, largest first, ties in
\* first-encountered order, cut to n.
most_common(ids, n) ==
    LET c == sorted_by_count_desc(counter_items(ids, <<>>))
    IN SubSeq(c, 1, IF Len(c) < n THEN Len(c) ELSE n)

search_mates(d, sequence, k) ==
    LET top == most_common(collect_ids(d, cut_kmer(sequence, k)), TopN)
    IN [i \in 1..Len(top) |-> top[i][1]]

\* list(set(lst1) & set(lst2)); the order of the list is that of a set, so the
\* set itself is kept and the order drawn where it is read.
common(lst1, lst2) == lst1 \cap lst2

SetOf(lst) == {lst[i] : i \in 1..Len(lst)}

---------------------------------------------------------------------------
(* get_identity and detect_chimera                                         *)

\* nw.global_align is an external library.  Its result is drawn from
\* alignments of 100 columns with 96 to 98 matching columns, which stand for
\* the alignments of full-length amplicons around the identity threshold.
AlnCols == 1..100
MatchCounts == {96, 97, 98}
AlignOf(m) == <<[i \in AlnCols |-> "A"], [i \in AlnCols |-> IF i <= m THEN "A" ELSE "C"]>>
AlignSet == {AlignOf(m) : m \in MatchCounts}

\* count_base / len(alignment_list[0]) * 100; exact on the alignments of AlignSet.
get_identity(alignment_list) ==
    LET count_base == Cardinality({i \in 1..Len(alignment_list[1]) :
                                      alignment_list[1][i] = alignment_list[2][i]})
    IN (count_base * 100) \div Len(alignment_list[1])

\* Fixed-point arithmetic for statistics.stdev: values in units of 1/Scale.
Scale == 1000

RECURSIVE isqrt_between(_, _, _)
isqrt_between(v, lo, hi) ==
    IF lo >= hi THEN lo
    ELSE LET mid == (lo + hi + 1) \div 2
         IN IF mid * mid <= v THEN isqrt_between(v, mid, hi)
            ELSE isqrt_between(v, lo, mid - 1)

isqrt(v) == isqrt_between(v, 0, 46340)

\* statistics.stdev(data): the square root of the sample variance
\* sum((x - mean)^2) / (n - 1), here Scale times its value, rounded down.
\* With n*x - sum(data) = n*(x - mean), the variance is ss / (n*n*(n-1)).
stdev(data) ==
    LET n == Len(data)
        total == SumSeq(data)
        ss == SumSeq([i \in 1..n |-> (n * data[i] - total) * (n * data[i] - total)])
    IN isqrt((ss * Scale * Scale) \div (n * n * (n - 1)))

\* A faulty variant of detect_chimera: it asks for either parent to be favoured, not both.
detect_chimera_either(perc_identity_matrix) ==
    LET n == Len(perc_identity_matrix)
        sum_stdev == SumSeq([i \in 1..n |-> stdev(perc_identity_matrix[i])])
        bool1_seq == \E i \in 1..n : perc_identity_matrix[i][1] > perc_identity_matrix[i][2]
        bool2_seq == \E i \in 1..n : perc_identity_matrix[i][2] > perc_identity_matrix[i][1]
    IN sum_stdev > StdevThreshold * Scale * n /\ (bool1_seq \/ bool2_seq)

\* sum_stdev / len(matrix) > 5 and bool1_seq and bool2_seq
detect_chimera(perc_identity_matrix) ==
    LET n == Len(perc_identity_matrix)
        sum_stdev == SumSeq([i \in 1..n |-> stdev(perc_identity_matrix[i])])
        bool1_seq == \E i \in 1..n : perc_identity_matrix[i][1] > perc_identity_matrix[i][2]
        bool2_seq == \E i \in 1..n : perc_identity_matrix[i][2] > perc_identity_matrix[i][1]
    IN sum_stdev > StdevThreshold * Scale * n /\ bool1_seq /\ bool2_seq

---------------------------------------------------------------------------
(* The inputs of the pipeline.                                             *)

Header == <<">", "\n">>
Line(s) == s \o <<"\n">>

SeqX == Rep("A", 13)
SeqY == Rep("A", 17)
SeqZ == Rep("A", 16) \o <<"C">>
SeqShort == <<"A", "C">>

\* The records a file is made of: a header line and the lines of its sequence.
RecordSet ==
    { <<Header, Line(SeqX)>>,
      <<Header, Line(Rep("A", 9)), Line(Rep("A", 8))>>,
      <<Header, Line(SeqZ)>>,
      <<Header, Line(SeqShort)>> }

MinSeqLens == {0, 14}
MinCounts == {1, 2}
ChunkSizes == {3, 4}
KmerSizes == {2, 3}

NoCall == [op |-> "none"]

\* The state every run starts from, whatever is run.
Fresh ==
    /\ err = "none"
    /\ pos = 0
    /\ seq = <<>>
    /\ stream = <<>>
    /\ dict_amplicon = <<>>
    /\ items = <<>>
    /\ idx = 0
    /\ derep_out = <<>>
    /\ amplicon = <<>>
    /\ list_non_chimere = <<>>
    /\ kmer_dict = EmptyDict
    /\ id_ref = 0
    /\ mates = <<>>
    /\ is_chim = FALSE
    /\ emitted = <<>>
    /\ greedy_cluster = <<>>
    /\ identities = <<>>

\* main(): abundance_greedy_clustering on a file and the four arguments.
Init ==
    /\ \E n \in 0..MaxRecords : \E recs \in [1..n -> RecordSet] :
          filin = Concat(recs)
    /\ minseqlen \in MinSeqLens
    /\ mincount \in MinCounts
    /\ chunk_size \in ChunkSizes
    /\ kmer_size \in KmerSizes
    /\ pc = "read"
    /\ call = NoCall
    /\ Fresh

---------------------------------------------------------------------------
(* read_fasta and dereplication_fulllength                                 *)

args == <<filin, minseqlen, mincount, chunk_size, kmer_size>>
chimera_vars == <<list_non_chimere, kmer_dict, id_ref, mates, is_chim, emitted>>
cluster_vars == <<greedy_cluster, identities>>

\* One line of the file: a header ends the record read so far, which is yielded
\* when long enough and counted by dereplication_fulllength's loop; any other
\* line is stripped and added to the record.
ReadLine ==
    /\ pc = "read"
    /\ pos < Len(filin)
    /\ pos' = pos + 1
    /\ LET line == filin[pos + 1]
       IN IF startswith_gt(line)
          THEN /\ seq' = <<>>
               /\ IF Len(seq) >= minseqlen
                  THEN /\ stream' = Append(stream, seq)
                       /\ dict_amplicon' = count_amplicon(dict_amplicon, seq)
                  ELSE UNCHANGED <<stream, dict_amplicon>>
          ELSE /\ seq' = seq \o strip(line)
               /\ UNCHANGED <<stream, dict_amplicon>>
    /\ UNCHANGED <<args, pc, err, items, idx, derep_out, amplicon, chimera_vars,
                   cluster_vars, call>>

\* The end of the file: the record read so far is yielded, the counting loop
\* ends and the counts are sorted.
ReadEnd ==
    /\ pc = "read"
    /\ pos = Len(filin)
    /\ stream' = Append(stream, seq)
    /\ dict_amplicon' = count_amplicon(dict_amplicon, seq)
    /\ items' = sorted_by_count_desc(dict_amplicon')
    /\ pc' = "derep"
    /\ UNCHANGED <<args, err, pos, seq, idx, derep_out, amplicon, chimera_vars,
                   cluster_vars, call>>

\* The next sorted item: yielded to chimera_removal when its count is at least
\* mincount, passed over otherwise.
DerepNext ==
    /\ pc = "derep"
    /\ idx < Len(items)
    /\ idx' = idx + 1
    /\ IF items[idx + 1][2] >= mincount
       THEN /\ derep_out' = Append(derep_out, items[idx + 1])
            /\ amplicon' = items[idx + 1]
            /\ pc' = "chimera"
       ELSE UNCHANGED <<derep_out, amplicon, pc>>
    /\ UNCHANGED <<args, err, pos, seq, stream, dict_amplicon, items,
                   chimera_vars, cluster_vars, call>>

---------------------------------------------------------------------------
(* chimera_removal                                                         *)

\* An exception nothing catches: it leaves every generator and ends main().
Abort(e) ==
    /\ pc' = "aborted"
    /\ err' = e
    /\ UNCHANGED <<args, pos, seq, stream, dict_amplicon, items, idx, derep_out,
                   amplicon, chimera_vars, cluster_vars, call>>

\* The end of one iteration of chimera_removal's loop with verdict v and
\* candidate lists m: a sequence that is not a chimera enters the index and the
\* pool and is yielded to the clusterer.
Verdict(v, m) ==
    /\ mates' = m
    /\ is_chim' = v
    /\ IF ~v
       THEN /\ kmer_dict' = get_unique_kmer(kmer_dict, amplicon[1], id_ref, kmer_size)
            /\ list_non_chimere' = Append(list_non_chimere, amplicon[1])
            /\ id_ref' = id_ref + 1
            /\ emitted' = Append(emitted, amplicon)
            /\ pc' = "cluster"
            /\ UNCHANGED amplicon
       ELSE /\ pc' = "derep"
            /\ amplicon' = <<>>
            /\ UNCHANGED <<kmer_dict, list_non_chimere, id_ref, emitted>>
    /\ UNCHANGED <<args, err, pos, seq, stream, dict_amplicon, items, idx,
                   derep_out, cluster_vars, call>>

\* common_id = common(mates[0], mates[1]), then common(common_id, mates[same]).
RECURSIVE common_all(_, _, _)
common_all(common_id, m, same) ==
    IF same > Len(m) THEN common_id
    ELSE common_all(common(common_id, SetOf(m[same])), m, same + 1)

\* search_mates is handed the amplicon, the list [sequence, count], and not a
\* chunk.  cut_kmer slices that list of two; a slice is a list, which
\* `kmer in kmer_dict` cannot hash: TypeError as soon as there is a slice.
search_mates_raises(amp, k) == cut_kmer(amp, k) # <<>>

\* One iteration of chimera_removal's loop, on the amplicon just yielded.
ChimeraStep ==
    /\ pc = "chimera"
    /\ LET got == get_chunks(amplicon[1], chunk_size)
           chunks == got.value
           m == [j \in 1..Len(chunks) |-> search_mates(kmer_dict, amplicon, kmer_size)]
           common_id == common_all(common(SetOf(m[1]), SetOf(m[2])), m, 3)
       IN IF got.raised THEN Abort("ValueError")
          ELSE IF search_mates_raises(amplicon, kmer_size) THEN Abort("TypeError")
          ELSE IF Cardinality(common_id) > 1
          THEN \E a \in common_id : \E b \in common_id \ {a} :
                  LET db_a == get_chunks(list_non_chimere[a + 1], chunk_size)
                      db_b == get_chunks(list_non_chimere[b + 1], chunk_size)
                  IN IF db_a.raised \/ db_b.raised THEN Abort("ValueError")
                     ELSE IF Len(db_a.value) < Len(chunks) \/ Len(db_b.value) < Len(chunks)
                     THEN Abort("IndexError")
                     ELSE \E aln \in [1..Len(chunks) -> AlignSet \X AlignSet] :
                            Verdict(detect_chimera(
                                [j \in 1..Len(chunks) |->
                                    <<get_identity(aln[j][1]), get_identity(aln[j][2])>>]), m)
          ELSE Verdict(FALSE, m)

---------------------------------------------------------------------------
(* abundance_greedy_clustering                                             *)

\* One iteration of the clusterer's loop, on the amplicon chimera_removal has
\* just yielded: every cluster is aligned with it, in creation order.
ClusterStep ==
    /\ pc = "cluster"
    /\ IF greedy_cluster = <<>>
       THEN /\ greedy_cluster' = <<amplicon>>
            /\ identities' = <<>>
       ELSE \E align_tmp \in [1..Len(greedy_cluster) -> AlignSet] :
               LET ident == [i \in 1..Len(greedy_cluster) |-> get_identity(align_tmp[i])]
                   scanned == [i \in 1..Len(greedy_cluster) |->
                                 IF ident[i] > IdentityThreshold
                                 THEN <<greedy_cluster[i][1], greedy_cluster[i][2] + amplicon[2]>>
                                 ELSE greedy_cluster[i]]
                   flag_dico == \A i \in 1..Len(greedy_cluster) : ~(ident[i] > IdentityThreshold)
               IN /\ greedy_cluster' = IF flag_dico THEN Append(scanned, amplicon) ELSE scanned
                  /\ identities' = ident
    /\ pc' = "derep"
    /\ amplicon' = <<>>
    /\ UNCHANGED <<args, err, pos, seq, stream, dict_amplicon, items, idx,
                   derep_out, chimera_vars, call>>

\* Every generator is exhausted: abundance_greedy_clustering returns its clusters.
Return ==
    /\ pc = "derep"
    /\ idx = Len(items)
    /\ pc' = "done"
    /\ UNCHANGED <<args, err, pos, seq, stream, dict_amplicon, items, idx,
                   derep_out, amplicon, chimera_vars, cluster_vars, call>>

Next == ReadLine \/ ReadEnd \/ DerepNext \/ ChimeraStep \/ ClusterStep \/ Return

Spec == Init /\ [][Next]_vars

---------------------------------------------------------------------------
(* Claims about the pipeline, checked under Spec.                          *)

\* The position in the stream at which read_fasta first yielded sequence s.
FirstSeen(s) == Min({p \in 1..Len(stream) : stream[p] = s})

Occurrences(s) == Cardinality({p \in 1..Len(stream) : stream[p] = s})

\* C1: when the clusterer scans a non-empty cluster list and some representative
\* has identity > 97 with the amplicon, the count is added to the first such
\* cluster only and every other cluster keeps its abundance.
C1_FirstQualifyingClusterOnly ==
    [][(pc = "cluster" /\ greedy_cluster # <<>>) =>
          LET q == {i \in 1..Len(identities') : identities'[i] > IdentityThreshold}
          IN q # {} =>
               greedy_cluster' =
                  [i \in 1..Len(greedy_cluster) |->
                      IF i = Min(q)
                      THEN <<greedy_cluster[i][1], greedy_cluster[i][2] + amplicon[2]>>
                      ELSE greedy_cluster[i]]]_vars

\* C2: an amplicon from which get_chunks cannot cut 4 chunks is dropped and the
\* run goes on: the run is never ended by that amplicon's ValueError.
C2_ChunkFailureDoesNotAbort ==
    ~(pc = "aborted" /\ err = "ValueError" /\ get_chunks(amplicon[1], chunk_size).raised)

\* C4: the amplicons dereplication_fulllength has yielded have count >= mincount,
\* pairwise distinct sequences, counts equal to the occurrences in the stream,
\* non-increasing counts, and equal counts in first-seen order.
C4_Dereplication ==
    /\ \A i \in 1..Len(derep_out) :
          /\ derep_out[i][2] >= mincount
          /\ derep_out[i][2] = Occurrences(derep_out[i][1])
    /\ \A i \in 1..Len(derep_out) : \A j \in (i + 1)..Len(derep_out) :
          /\ derep_out[i][1] # derep_out[j][1]
          /\ derep_out[i][2] >= derep_out[j][2]
          /\ derep_out[i][2] = derep_out[j][2] =>
                FirstSeen(derep_out[i][1]) < FirstSeen(derep_out[j][1])

\* Three amplicons yielded: one moved ahead of a sequence seen before it, and
\* two of equal count.
C4_Witness ==
    /\ Len(derep_out) >= 3
    /\ \E i \in 1..Len(derep_out) : \E j \in (i + 1)..Len(derep_out) :
          /\ derep_out[i][2] > derep_out[j][2]
          /\ FirstSeen(derep_out[i][1]) > FirstSeen(derep_out[j][1])
    /\ \E i \in 1..Len(derep_out) : \E j \in (i + 1)..Len(derep_out) :
          derep_out[i][2] = derep_out[j][2]

\* C6: on a file with no records the pipeline does not raise and returns no OTU.
C6_EmptySourceGivesNoOTU ==
    filin = <<>> => (pc # "aborted" /\ (pc = "done" => greedy_cluster = <<>>))

\* C7: every sequence read_fasta yields is at least minseqlen long.
C7_YieldedAtLeastMinseqlen ==
    \A p \in 1..Len(stream) : Len(stream[p]) >= minseqlen

\* C8: the candidate list chimera_removal uses for chunk j is the answer of the
\* k-mer index to chunk j.
C8_MatesQueriedPerChunk ==
    [][(pc = "chimera" /\ pc' # "aborted") =>
          LET chunks == get_chunks(amplicon[1], chunk_size).value
          IN mates' = [j \in 1..Len(chunks) |->
                          search_mates(kmer_dict, chunks[j], kmer_size)]]_vars

IsPrefix(s, t) == Len(s) <= Len(t) /\ SubSeq(t, 1, Len(s)) = s

CountIn(x, lst) == Cardinality({p \in 1..Len(lst) : lst[p] = x})

IndexAgreesWithPool ==
    /\ id_ref = Len(list_non_chimere)
    /\ \A kmer \in DOMAIN kmer_dict : \A p \in 1..Len(kmer_dict[kmer]) :
          kmer_dict[kmer][p] \in 0..(Len(list_non_chimere) - 1)
    /\ \A i \in 0..(Len(list_non_chimere) - 1) :
          LET kmers == cut_kmer(list_non_chimere[i + 1], kmer_size)
          IN /\ \A kmer \in DOMAIN kmer_dict :
                   CountIn(i, kmer_dict[kmer]) = CountIn(kmer, kmers)
             /\ \A p \in 1..Len(kmers) : kmers[p] \in DOMAIN kmer_dict
    /\ list_non_chimere = [i \in 1..Len(emitted) |-> emitted[i][1]]

IndexOnlyGrows ==
    /\ \A kmer \in DOMAIN kmer_dict :
          kmer \in DOMAIN kmer_dict' /\ IsPrefix(kmer_dict[kmer], kmer_dict'[kmer])
    /\ IsPrefix(list_non_chimere, list_non_chimere')
    /\ IsPrefix(emitted, emitted')
    /\ id_ref' >= id_ref
    /\ (pc = "chimera" /\ pc' # "aborted" /\ is_chim') =>
          UNCHANGED <<kmer_dict, list_non_chimere, id_ref, emitted>>

\* C10: after every step the next id is the pool's length, the ids of the index
\* are ids of the pool, id i is listed under a k-mer as often as the k-mer occurs
\* in pool[i], and the sequences emitted are the pool in order; no step removes
\* an index entry, a pool entry or an id, and a step that judges its sequence
\* chimeric changes none of them.
C10_IndexAndPoolAgree == []IndexAgreesWithPool /\ [][IndexOnlyGrows]_vars

\* Two references in the pool, both listed under one k-mer, the first one twice.
C10_Witness ==
    /\ Len(list_non_chimere) >= 2
    /\ \E kmer \in DOMAIN kmer_dict :
          CountIn(0, kmer_dict[kmer]) >= 2 /\ CountIn(1, kmer_dict[kmer]) >= 1

---------------------------------------------------------------------------
(* Direct calls of the pure functions.  The pipeline stands still (pc =    *)
(* "call") and `call` holds the arguments and what the function returned.  *)

Idle ==
    /\ filin = <<>>
    /\ minseqlen = 0
    /\ mincount = 0
    /\ pc = "call"
    /\ Fresh

pipeline_vars == <<filin, minseqlen, mincount, pc, err, pos, seq, stream,
                   dict_amplicon, items, idx, derep_out, amplicon, mates,
                   is_chim, emitted, greedy_cluster, identities>>

Nucleotides == <<"A", "C", "G", "T">>

\* Lengths and chunk sizes of the order of the defaults (400 and 100).
FullSizeCases == {<<250, 100>>, <<400, 100>>, <<450, 100>>, <<500, 100>>}

\* get_chunks(sequence, chunk_size) on a sequence of any length up to MaxSeqLen
\* and any chunk size from 1 to MaxChunkSize, and on the full-size cases.
InitChunks ==
    /\ \E c \in ((0..MaxSeqLen) \X (1..MaxChunkSize)) \cup FullSizeCases :
       \E shift \in 0..3 :
        LET len == c[1]
            size == c[2]
        IN
          /\ chunk_size = size
          /\ call = [op |-> "get_chunks",
                     sequence |-> [i \in 1..len |-> Nucleotides[((i + shift) % 4) + 1]],
                     done |-> FALSE,
                     ret |-> [raised |-> FALSE, value |-> <<>>]]
    /\ kmer_size = 1
    /\ Idle

GetChunksCall ==
    /\ pc = "call"
    /\ call.op = "get_chunks"
    /\ ~call.done
    /\ call' = [call EXCEPT !.done = TRUE,
                            !.ret = get_chunks(call.sequence, chunk_size)]
    /\ UNCHANGED <<pipeline_vars, chunk_size, kmer_size, list_non_chimere,
                   kmer_dict, id_ref>>

SpecChunks == InitChunks /\ [][GetChunksCall]_vars

\* The number of i in 0, C, 2C, ... with i + C < L: one less than L/C rounded up.
ChunksCut(len, size) == IF len = 0 THEN 0 ELSE (len - 1) \div size

\* C3, as amended: get_chunks returns the first ceil(L/C) - 1 chunks of size C
\* (floor(L/C) when C does not divide L, L/C - 1 when it does) when that number
\* is at least 4, and raises otherwise.
C3_ChunksExcludeTheLastIndex ==
    (call.op = "get_chunks" /\ call.done) =>
        LET n == ChunksCut(Len(call.sequence), chunk_size)
        IN IF n >= MinChunks
           THEN /\ ~call.ret.raised
                /\ call.ret.value =
                      [j \in 1..n |-> SubSeq(call.sequence, (j - 1) * chunk_size + 1,
                                             j * chunk_size)]
           ELSE call.ret.raised

\* A sequence whose length is a multiple of the chunk size, cut into chunks.
C3_Witness ==
    /\ call.op = "get_chunks"
    /\ call.done
    /\ ~call.ret.raised
    /\ Len(call.sequence) % chunk_size = 0

\* C3, as stated: floor(L/C) chunks when floor(L/C) >= 4, the error otherwise.
C3_FloorOfLengthOverSize ==
    (call.op = "get_chunks" /\ call.done) =>
        LET n == Len(call.sequence) \div chunk_size
        IN IF n >= MinChunks
           THEN ~call.ret.raised /\ Len(call.ret.value) = n
           ELSE call.ret.raised

---------------------------------------------------------------------------

IndexSeqs == { <<"A", "A", "C">>, <<"A", "C">> }
IndexKmerSizes == {1, 2}

\* A k-mer index built by get_unique_kmer alone, queried by search_mates.
InitKmer ==
    /\ kmer_size \in IndexKmerSizes
    /\ chunk_size = 1
    /\ call = NoCall
    /\ Idle

\* get_unique_kmer(kmer_dict, sequence, id_seq, kmer_size) with the next id.
KmerInsert ==
    /\ pc = "call"
    /\ id_ref < MaxRefs
    /\ \E sequence \in IndexSeqs :
          /\ kmer_dict' = get_unique_kmer(kmer_dict, sequence, id_ref, kmer_size)
          /\ list_non_chimere' = Append(list_non_chimere, sequence)
    /\ id_ref' = id_ref + 1
    /\ call' = NoCall
    /\ UNCHANGED <<pipeline_vars, chunk_size, kmer_size>>

\* search_mates(kmer_dict, sequence, kmer_size) on a truncation, at least
\* kmer_size long, of the sequence inserted with id `id`.  A query leaves the
\* index as it is, so one query per state of the index shows every answer.
KmerQuery ==
    /\ pc = "call"
    /\ call = NoCall
    /\ \E id \in 0..(id_ref - 1) :
          \E n \in kmer_size..Len(list_non_chimere[id + 1]) :
             LET sequence == SubSeq(list_non_chimere[id + 1], 1, n)
             IN call' = [op |-> "search_mates", id |-> id, sequence |-> sequence,
                         ret |-> search_mates(kmer_dict, sequence, kmer_size)]
    /\ UNCHANGED <<pipeline_vars, chunk_size, kmer_size, list_non_chimere,
                   kmer_dict, id_ref>>

NextKmer == KmerInsert \/ KmerQuery

SpecKmer == InitKmer /\ [][NextKmer]_vars

\* How often id x is listed under the k-mers of sequence s, each k-mer of s
\* counted as often as it occurs in s.
Frequency(x, s) ==
    LET kmers == cut_kmer(s, kmer_size)
    IN SumSeq([p \in 1..Len(kmers) |->
                  IF kmers[p] \in DOMAIN kmer_dict
                  THEN CountIn(x, kmer_dict[kmers[p]]) ELSE 0])

\* C5, as amended: after s is inserted with id i, i has a nonzero frequency for
\* any truncation of s, and search_mates on the truncation returns a list that
\* contains i or else holds 8 ids, each at least as frequent as i.
C5_OwnIdRankedAmongMates ==
    call.op = "search_mates" =>
        /\ Frequency(call.id, call.sequence) >= 1
        /\ \/ call.id \in SetOf(call.ret)
           \/ /\ Len(call.ret) = TopN
              /\ \A x \in SetOf(call.ret) :
                    Frequency(x, call.sequence) >= Frequency(call.id, call.sequence)

\* A query answered with the sequence's own id among other ids, the index
\* holding more ids than the answer.
C5_Witness ==
    /\ call.op = "search_mates"
    /\ call.id \in SetOf(call.ret)
    /\ Len(call.ret) = TopN
    /\ id_ref > TopN
    /\ \E x \in SetOf(call.ret) :
          Frequency(x, call.sequence) > Frequency(call.id, call.sequence)

\* C5, as stated: search_mates on a truncation of s returns a list that contains i.
C5_OwnIdAlwaysReturned ==
    call.op = "search_mates" => call.id \in SetOf(call.ret)

---------------------------------------------------------------------------

PercSet == {90, 97, 98, 100}

\* detect_chimera(perc_identity_matrix) on a matrix of 1 to MaxRows rows of two
\* percentages.
InitDetect ==
    /\ \E n \in 1..MaxRows : \E matrix \in [1..n -> PercSet \X PercSet] :
          call = [op |-> "detect_chimera", matrix |-> matrix, done |-> FALSE,
                  ret |-> FALSE]
    /\ chunk_size = 1
    /\ kmer_size = 1
    /\ Idle

DetectCall ==
    /\ pc = "call"
    /\ call.op = "detect_chimera"
    /\ ~call.done
    /\ call' = [call EXCEPT !.done = TRUE, !.ret = detect_chimera(call.matrix)]
    /\ UNCHANGED <<pipeline_vars, chunk_size, kmer_size, list_non_chimere,
                   kmer_dict, id_ref>>

SpecDetect == InitDetect /\ [][DetectCall]_vars

Abs(x) == IF x < 0 THEN -x ELSE x

\* C9: detect_chimera is true exactly when (sum_i |a_i - b_i|)^2 > 50 * N^2, some
\* row has a_i > b_i and some row has b_i > a_i; a matrix whose rows all have
\* a_i = b_i is never declared chimeric.
C9_ChimeraVerdict ==
    (call.op = "detect_chimera" /\ call.done) =>
        LET m == call.matrix
            n == Len(m)
            s == SumSeq([i \in 1..n |-> Abs(m[i][1] - m[i][2])])
        IN /\ call.ret <=> /\ s * s > 50 * n * n
                           /\ \E i \in 1..n : m[i][1] > m[i][2]
                           /\ \E i \in 1..n : m[i][2] > m[i][1]
           /\ (\A i \in 1..n : m[i][1] = m[i][2]) => ~call.ret

\* A matrix declared chimeric although one of its rows, alone, is under the
\* threshold.
C9_Witness ==
    /\ call.op = "detect_chimera"
    /\ call.done
    /\ call.ret
    /\ \E i \in 1..Len(call.matrix) :
          Abs(call.matrix[i][1] - call.matrix[i][2]) * Abs(call.matrix[i][1] - call.matrix[i][2]) < 50

===========================================================================
